---- MODULE Spec2Model ----
(***************************************************************************)
(* Model of the phone store backend (src/main.py, src/schemas.py): the     *)
(* seed_products and create_order handlers running concurrently against    *)
(* the "phoneproduct" and "order" collections of one document store.       *)
(*                                                                         *)
(* Every call to the store (find_one, count_documents, insert, update_one) *)
(* is one atomic step; the Python code between two store calls is local to *)
(* the request and is part of the step of the store call it follows.       *)
(*                                                                         *)
(* Money is counted in thousandths of a unit ("mills"): 1199000 is 1199.0. *)
(* An ObjectId string is modelled by a number: n >= 1 is the string form   *)
(* of the n-th identifier the store generates for a collection, 0 is a     *)
(* string that is not a well-formed ObjectId.                              *)
(***************************************************************************)
EXTENDS Integers, Sequences, FiniteSets, TLC

\* Bounds of the model.
MaxStock == 2          \* stocks of the initial catalog range over 0..MaxStock
MaxQty == 2            \* requested quantities range over -1..MaxQty
MaxFailures == 1       \* store calls that may fail in one behaviour

Requests == {"r1", "r2"}     \* concurrent POST /api/orders requests
Seeds == {"s1", "s2"}        \* concurrent POST /seed requests

\* A well-formed identifier that no product ever gets in this model.
AbsentId == 9
MalformedId == 0

-----------------------------------------------------------------------------
\* The fixed demo catalog of seed_products.
demo ==
    << [brand |-> "Apple", model |-> "iPhone 15 Pro", price |-> 1199000,
        stock |-> 25, image |-> "img-iphone"],
       [brand |-> "Samsung", model |-> "Galaxy S23 Ultra", price |-> 1099000,
        stock |-> 30, image |-> "img-galaxy"],
       [brand |-> "Google", model |-> "Pixel 8 Pro", price |-> 999000,
        stock |-> 15, image |-> "img-pixel"] >>

\* A catalog that is already populated when the requests arrive: two
\* Phoneproduct documents (stock >= 0, price >= 0 as the schema requires).
\* The prices are 0.125 and 1.25, exact in binary floating point.
Catalog(s1, s2) ==
    << [brand |-> "Acme", model |-> "A1", price |-> 125, stock |-> s1,
        image |-> "img-a1"],
       [brand |-> "Acme", model |-> "B2", price |-> 1250, stock |-> s2,
        image |-> "img-b2"] >>

\* Request bodies: CartItem is {product_id: str, qty: int}, with no
\* constraint on qty; items is a list of CartItem of any length.
Qtys == (0 - 1) .. MaxQty
CartItems ==
    [product_id : {1, 2}, qty : Qtys]
        \cup [product_id : {MalformedId, AbsentId}, qty : {1}]
Carts ==
    {<< >>} \cup {<<a>> : a \in CartItems}
            \cup {<<a, b>> : a \in CartItems, b \in CartItems}

\* The request bodies of the concurrent runs: one or two lines, each for an
\* existing product and a positive quantity.
ConcItems == [product_id : {1, 2}, qty : 1 .. MaxQty]
ConcCarts ==
    {<<a>> : a \in ConcItems} \cup {<<a, b>> : a \in ConcItems, b \in ConcItems}

-----------------------------------------------------------------------------
VARIABLES
    db,            \* TRUE when the store is configured (db is not None)
    phoneproduct,  \* the "phoneproduct" collection, in insertion order; the
                   \* _id of a document is its position
    order,         \* the "order" collection, in insertion order
    req,           \* the state of each create_order request
    seed,          \* the state of each seed_products request
    phone,         \* the last get_phone request and its response
    failures,      \* store calls that have failed so far
    stock0         \* history: the stock each product was inserted with

vars == <<db, phoneproduct, order, req, seed, phone, failures, stock0>>

NoResponse == [status |-> 0, detail |-> "", arg |-> "", order_id |-> 0, total |-> 0]

\* HTTPException(status_code, detail), and any other error response.
HTTPException(status, detail, arg) ==
    [status |-> status, detail |-> detail, arg |-> arg, order_id |-> 0, total |-> 0]

NoException == [kind |-> "none", status |-> 0, detail |-> "", arg |-> ""]
Raise(kind, status, detail, arg) ==
    [kind |-> kind, status |-> status, detail |-> detail, arg |-> arg]

\* bson.ObjectId(s) raises InvalidId unless s is a well-formed identifier.
IsObjectId(s) == s >= 1

\* Round2 with the rounding left out.
Round2NoRounding(m) == m

\* round(total, 2) on a total in mills: to the nearest hundredth, ties to
\* the even hundredth (Python rounds the exact binary value; the totals of
\* this model are multiples of 0.125 and so are exact).
Round2(m) ==
    LET a == IF m < 0 THEN 0 - m ELSE m
        q == a \div 10
        r == a % 10
        up == r > 5 \/ (r = 5 /\ q % 2 = 1)
        v == (IF up THEN q + 1 ELSE q) * 10
    IN  IF m < 0 THEN 0 - v ELSE v

\* The locals of create_order. exc is the exception caught by the except
\* clause; order_total is order.total of the local Order object; before is
\* history: the stocks of the catalog when the request arrived.
IdleReq ==
    [pc |-> "idle", items |-> << >>, i |-> 1, item_docs |-> << >>, total |-> 0,
     exc |-> NoException, order_total |-> 0, order_id |-> 0, j |-> 1,
     response |-> NoResponse, before |-> << >>]

Stocks(coll) == [p \in DOMAIN coll |-> coll[p].stock]

\* create_document(collection_name, data) of the database module: inserts the
\* document and returns the identifier the store generated for it.
create_document(coll, doc) == Append(coll, doc)
inserted_id(coll) == Len(coll) + 1

\* The locals of seed_products. History: seen is the catalog that
\* count_documents counted, after the seed requests that had ended by then.
IdleSeed ==
    [pc |-> "idle", k |-> 1, ids |-> << >>, response |-> "",
     seen |-> << >>, after |-> {}]

NoPhone == [phone_id |-> 0, status |-> 0, detail |-> "", body |-> << >>]

Init ==
    /\ db \in BOOLEAN
    /\ phoneproduct \in
         {<< >>} \cup {Catalog(s1, s2) : s1 \in 0 .. MaxStock, s2 \in 0 .. MaxStock}
    /\ order = << >>
    /\ req = [r \in Requests |-> IdleReq]
    /\ seed = [s \in Seeds |-> IdleSeed]
    /\ phone = NoPhone
    /\ failures = 0
    /\ stock0 = Stocks(phoneproduct)

-----------------------------------------------------------------------------
\* create_order, lines 157-162: the request arrives with its body.
Start(r, items) ==
    /\ req[r].pc = "idle"
    /\ IF ~db
       THEN req' = [req EXCEPT ![r].pc = "done", ![r].items = items,
                      ![r].before = Stocks(phoneproduct),
                      ![r].response =
                          HTTPException(500, "Database not configured", "")]
       ELSE req' = [req EXCEPT ![r].items = items,
                      ![r].before = Stocks(phoneproduct),
                      ![r].pc = IF items = << >> THEN "create" ELSE "find"]
    /\ UNCHANGED <<db, phone, phoneproduct, order, seed, failures, stock0>>

\* TryBody without the stock check of line 168.
TryBodyNoStockCheck(item) ==
    IF ~IsObjectId(item.product_id)
    THEN Raise("InvalidId", 0, "", "")
    ELSE IF item.product_id \notin DOMAIN phoneproduct
    THEN Raise("HTTPException", 400, "Product not found",
               ToString(item.product_id))
    ELSE NoException

\* The body of the try block of the validation loop for one cart item:
\* the exception it raises, if any.
TryBody(item) ==
    IF ~IsObjectId(item.product_id)
    THEN Raise("InvalidId", 0, "", "")
    ELSE IF item.product_id \notin DOMAIN phoneproduct
    THEN Raise("HTTPException", 400, "Product not found",
               ToString(item.product_id))
    ELSE IF phoneproduct[item.product_id].stock < item.qty
    THEN Raise("HTTPException", 400, "Not enough stock for",
               phoneproduct[item.product_id].model)
    ELSE NoException

\* ExceptHandler with the exception left unhandled (a server error).
ExceptHandlerUnhandled(exc) == HTTPException(500, "Internal Server Error", "")

\* "except Exception": every exception raised in the try block, the two
\* HTTPExceptions included, is replaced by this one.
ExceptHandler(exc) == HTTPException(400, "Invalid product id", "")

\* One iteration of the validation loop: find_one and the checks.
FindOne(r) ==
    /\ req[r].pc = "find"
    /\ LET item == req[r].items[req[r].i]
           exc == TryBody(item)
       IN  IF exc.kind # "none"
           THEN req' = [req EXCEPT ![r].pc = "done", ![r].exc = exc,
                          ![r].response = ExceptHandler(exc)]
           ELSE LET doc == phoneproduct[item.product_id]
                    line == [product_id |-> item.product_id,
                             brand |-> doc.brand, model |-> doc.model,
                             price |-> doc.price, qty |-> item.qty,
                             image |-> doc.image]
                IN  req' = [req EXCEPT
                        ![r].total = @ + doc.price * item.qty,
                        ![r].item_docs = Append(@, line),
                        ![r].i = @ + 1,
                        ![r].pc = IF req[r].i = Len(req[r].items)
                                  THEN "create" ELSE "find"]
    /\ UNCHANGED <<db, phone, phoneproduct, order, seed, failures, stock0>>

\* Order(...): the schema rejects a negative total (total: float, ge=0).
OrderValid(total) == total >= 0

\* CreateOrder with the insert of line 194 left out.
CreateOrderSkip(r) ==
    /\ req[r].pc = "create"
    /\ req' = [req EXCEPT ![r].pc = "update"]
    /\ UNCHANGED <<db, phone, phoneproduct, order, seed, failures, stock0>>

\* CreateOrder with the new order written over the stored ones.
CreateOrderReplace(r) ==
    /\ req[r].pc = "create"
    /\ LET total == Round2(req[r].total)
       IN  IF ~OrderValid(total)
           THEN /\ req' = [req EXCEPT ![r].pc = "done",
                             ![r].response =
                                 HTTPException(500, "Internal Server Error", "")]
                /\ order' = order
           ELSE /\ order' = << [customer_name |-> r, items |-> req[r].item_docs,
                                total |-> total, status |-> "pending"] >>
                /\ req' = [req EXCEPT ![r].order_id = 1,
                             ![r].order_total = total,
                             ![r].pc = "update"]
    /\ UNCHANGED <<db, phone, phoneproduct, seed, failures, stock0>>

\* Lines 183-194: build the Order and insert it.
CreateOrder(r) ==
    /\ req[r].pc = "create"
    /\ LET total == Round2(req[r].total)
       IN  IF ~OrderValid(total)
           THEN /\ req' = [req EXCEPT ![r].pc = "done",
                             ![r].response =
                                 HTTPException(500, "Internal Server Error", "")]
                /\ order' = order
           ELSE /\ order' = create_document(order,
                        [customer_name |-> r, items |-> req[r].item_docs,
                         total |-> total, status |-> "pending"])
                /\ req' = [req EXCEPT ![r].order_id = inserted_id(order),
                             ![r].order_total = total,
                             ![r].pc = "update"]
    /\ UNCHANGED <<db, phone, phoneproduct, seed, failures, stock0>>

\* IncStock as an update that is skipped when the stock is too low.
IncStockIfEnough(coll, id, qty) ==
    IF id \in DOMAIN coll /\ coll[id].stock >= qty
    THEN [coll EXCEPT ![id].stock = @ - qty]
    ELSE coll

\* update_one({"_id": id}, {"$inc": {"stock": -qty}}): one atomic update of
\* the matching document, with no condition on its stock.
IncStock(coll, id, qty) ==
    IF id \in DOMAIN coll
    THEN [coll EXCEPT ![id].stock = @ - qty]
    ELSE coll

\* Success with the unrounded running total instead of order.total.
SuccessRawTotal(r) ==
    [status |-> 200, detail |-> "success", arg |-> "",
     order_id |-> req[r].order_id, total |-> req[r].total]

\* The response of line 200.
Success(r) ==
    [status |-> 200, detail |-> "success", arg |-> "",
     order_id |-> req[r].order_id, total |-> req[r].order_total]

\* Lines 197-200: one iteration of the decrement loop, or the return when
\* the loop is over.
UpdateOne(r) ==
    /\ req[r].pc = "update"
    /\ IF req[r].j > Len(req[r].items)
       THEN /\ req' = [req EXCEPT ![r].pc = "done", ![r].response = Success(r)]
            /\ phoneproduct' = phoneproduct
       ELSE LET it == req[r].items[req[r].j]
            IN  /\ phoneproduct' = IncStock(phoneproduct, it.product_id, it.qty)
                /\ req' = [req EXCEPT ![r].j = @ + 1]
    /\ UNCHANGED <<db, phone, order, seed, failures, stock0>>

\* A store call raises (the store became unreachable): inside the try block
\* the except clause answers 400, elsewhere the exception is unhandled.
StoreFail(r) ==
    /\ failures < MaxFailures
    /\ \/ /\ req[r].pc = "find"
          /\ req' = [req EXCEPT ![r].pc = "done",
                       ![r].exc = Raise("PyMongoError", 0, "", ""),
                       ![r].response = ExceptHandler(Raise("PyMongoError", 0, "", ""))]
       \/ /\ req[r].pc = "create" \/ (req[r].pc = "update" /\ req[r].j <= Len(req[r].items))
          /\ req' = [req EXCEPT ![r].pc = "done",
                       ![r].response =
                           HTTPException(500, "Internal Server Error", "")]
    /\ failures' = failures + 1
    /\ UNCHANGED <<db, phone, phoneproduct, order, seed, stock0>>

-----------------------------------------------------------------------------
\* SeedCount without the test of the count (lines 73-74).
SeedCountNoTest(s) ==
    /\ seed[s].pc = "idle"
    /\ seed' = [seed EXCEPT
          ![s].pc = IF db THEN "insert" ELSE "done",
          ![s].response = IF ~db THEN "Database not configured" ELSE "",
          ![s].seen = phoneproduct,
          ![s].after = {t \in Seeds : seed[t].pc = "done"}]
    /\ UNCHANGED <<db, phone, phoneproduct, order, req, failures, stock0>>

\* seed_products, lines 70-74: the check of db and count_documents.
SeedCount(s) ==
    /\ seed[s].pc = "idle"
    /\ seed' = [seed EXCEPT
          ![s].pc = IF db /\ Len(phoneproduct) = 0 THEN "insert" ELSE "done",
          ![s].response = IF ~db THEN "Database not configured"
                          ELSE IF Len(phoneproduct) > 0 THEN "Already seeded"
                          ELSE "",
          ![s].seen = phoneproduct,
          ![s].after = {t \in Seeds : seed[t].pc = "done"}]
    /\ UNCHANGED <<db, phone, phoneproduct, order, req, failures, stock0>>

\* Lines 116-119: one create_document of the loop over demo.
SeedInsert(s) ==
    /\ seed[s].pc = "insert"
    /\ phoneproduct' = create_document(phoneproduct, demo[seed[s].k])
    /\ stock0' = Append(stock0, demo[seed[s].k].stock)
    /\ seed' = [seed EXCEPT
          ![s].ids = Append(@, inserted_id(phoneproduct)),
          ![s].k = @ + 1,
          ![s].pc = IF seed[s].k = Len(demo) THEN "done" ELSE "insert",
          ![s].response = IF seed[s].k = Len(demo) THEN "inserted" ELSE ""]
    /\ UNCHANGED <<db, phone, order, req, failures>>

-----------------------------------------------------------------------------
\* serialize_doc: the document with "id", the string form of its _id, in
\* place of "_id".
serialize_doc(coll, oid) ==
    [id |-> oid, brand |-> coll[oid].brand, model |-> coll[oid].model,
     price |-> coll[oid].price, stock |-> coll[oid].stock,
     image |-> coll[oid].image]

\* The body of the try block of get_phone: the exception it raises, if any.
GetPhoneTry(phone_id) ==
    IF ~IsObjectId(phone_id)
    THEN Raise("InvalidId", 0, "", "")
    ELSE IF phone_id \notin DOMAIN phoneproduct
    THEN Raise("HTTPException", 404, "Not found", "")
    ELSE NoException

\* get_phone, lines 132-141: "except Exception" turns every exception of the
\* try block, the 404 HTTPException included, into 400 "Invalid id".
get_phone(phone_id) ==
    IF ~db
    THEN [phone_id |-> phone_id, status |-> 500,
          detail |-> "Database not configured", body |-> << >>]
    ELSE IF GetPhoneTry(phone_id).kind # "none"
    THEN [phone_id |-> phone_id, status |-> 400, detail |-> "Invalid id",
          body |-> << >>]
    ELSE [phone_id |-> phone_id, status |-> 200, detail |-> "",
          body |-> << serialize_doc(phoneproduct, phone_id) >>]

\* A GET /api/phones/{phone_id} request: one find_one.
GetPhone(phone_id) ==
    /\ phone' = get_phone(phone_id)
    /\ UNCHANGED <<db, phoneproduct, order, req, seed, failures, stock0>>

-----------------------------------------------------------------------------
\* One create_order request with any body, one seed request and store
\* failures.
Next ==
    \/ \E items \in Carts : Start("r1", items)
    \/ FindOne("r1")
    \/ CreateOrder("r1")
    \/ UpdateOne("r1")
    \/ StoreFail("r1")
    \/ SeedCount("s1")
    \/ SeedInsert("s1")

Spec == Init /\ [][Next]_vars

\* Concurrent create_order requests, no store call fails.
NextConc ==
    \/ \E r \in Requests, items \in ConcCarts : Start(r, items)
    \/ \E r \in Requests : FindOne(r)
    \/ \E r \in Requests : CreateOrder(r)
    \/ \E r \in Requests : UpdateOne(r)

SpecConc == Init /\ [][NextConc]_vars

\* Concurrent create_order requests whose store calls may fail.
NextFail ==
    \/ NextConc
    \/ \E r \in Requests : StoreFail(r)

SpecFail == Init /\ [][NextFail]_vars

\* The identifiers asked of get_phone.
PhoneIds == {MalformedId, 1, 2, 3, AbsentId}

\* Concurrent seed requests and get_phone requests.
NextSeed ==
    \/ \E s \in Seeds : SeedCount(s)
    \/ \E s \in Seeds : SeedInsert(s)
    \/ \E id \in PhoneIds : GetPhone(id)

SpecSeed == Init /\ [][NextSeed]_vars

-----------------------------------------------------------------------------
\* Vocabulary of the properties.

Done(r) == req[r].pc = "done"
Finished(r) == req[r].pc \in {"idle", "done"}

\* The order collection holds the order of request r (the customer_name of a
\* request's body is the request's name).
Persisted(r) == \E o \in DOMAIN order : order[o].customer_name = r

\* The request has applied decrements for the lines 1 .. j - 1 of its cart.
AllDecremented(r) == req[r].j > Len(req[r].items)
NoneDecremented(r) == req[r].j = 1

\* The quantity of product p over a sequence of lines.
RECURSIVE QtyOf(_, _)
QtyOf(lines, p) ==
    IF lines = << >> THEN 0
    ELSE (IF Head(lines).product_id = p THEN Head(lines).qty ELSE 0)
         + QtyOf(Tail(lines), p)

\* The quantity of product p over the line items of a sequence of orders.
RECURSIVE OrderedQty(_, _)
OrderedQty(orders, p) ==
    IF orders = << >> THEN 0
    ELSE QtyOf(Head(orders).items, p) + OrderedQty(Tail(orders), p)

\* The quantity of product p that the requests of S have decremented so far.
RECURSIVE DecrementedQty(_, _)
DecrementedQty(S, p) ==
    IF S = {} THEN 0
    ELSE LET r == CHOOSE x \in S : TRUE
         IN  QtyOf(SubSeq(req[r].items, 1, req[r].j - 1), p)
             + DecrementedQty(S \ {r}, p)

InvalidProduct == HTTPException(400, "Invalid product id", "")

\* With the store configured, request r asks, in a single line, for the whole
\* stock S >= 1 that product p had when the request arrived.
AsksFullStock(r, p) ==
    /\ db
    /\ p \in DOMAIN req[r].before
    /\ req[r].before[p] >= 1
    /\ req[r].items = << [product_id |-> p, qty |-> req[r].before[p]] >>

-----------------------------------------------------------------------------
\* C1: when two concurrent requests each ask, in a single line, for the full
\* stock S >= 1 of the same product, then once both have ended exactly one has
\* succeeded, the other has failed with a client error (InsufficientStock;
\* which client error the code answers is the subject of C10), exactly one
\* order is persisted and the stock of the product is 0.
C1_ExactlyOneFullStockOrderSucceeds ==
    \A p \in DOMAIN phoneproduct :
        (\A r \in Requests : Done(r) /\ AsksFullStock(r, p))
        => /\ \E w \in Requests : \A l \in Requests \ {w} :
                  /\ req[w].response.status = 200
                  /\ req[l].response.status = 400
           /\ Len(order) = 1
           /\ phoneproduct[p].stock = 0

\* C2: the stock of every product is >= 0 in every reachable state.
C2_StockNonNegative ==
    \A p \in DOMAIN phoneproduct : phoneproduct[p].stock >= 0

\* C3: every decrement that create_order applies is applied only if the stock
\* of the product at that moment is at least the quantity of the line.
C3_DecrementOnlyIfEnoughStock ==
    [][\A r \in Requests :
          (req[r].pc = "update" /\ req'[r].j = req[r].j + 1)
          => LET it == req[r].items[req[r].j]
             IN  phoneproduct[it.product_id].stock >= it.qty]_vars

\* C4: in every reachable state, the order of a request is in the order
\* collection only if all the stock decrements of the request have been applied.
C4_OrderPersistedOnlyAfterDecrements ==
    \A r \in Requests : Persisted(r) => AllDecremented(r)

\* C5: in every reachable state, every request that has applied a decrement to
\* a product's stock has its order in the order collection, and what is missing
\* from each product's stock is exactly what these requests have decremented.
C5_DecrementsBelongToPersistedOrders ==
    /\ \A r \in Requests : ~NoneDecremented(r) => Persisted(r)
    /\ \A p \in DOMAIN phoneproduct :
          phoneproduct[p].stock = stock0[p] - DecrementedQty(Requests, p)

\* C5 witness: a request has ended on a store failure after it applied a
\* decrement, and its order is persisted.
C5_Witness ==
    \E r \in Requests :
        /\ Done(r) /\ req[r].response.status = 500
        /\ ~NoneDecremented(r) /\ Persisted(r)

\* C6: once a request has ended, either its order is persisted and the stock of
\* every one of its lines is decremented, or no order is persisted and the
\* request has decremented nothing.
C6_NoHalfAppliedOrder ==
    \A r \in Requests :
        Done(r) => \/ Persisted(r) /\ AllDecremented(r)
                   \/ ~Persisted(r) /\ NoneDecremented(r)

\* C7: once every request has finished, the stock of each product is its
\* initial stock minus the quantities of that product over the line items of
\* all persisted orders.
C7_StockIsInitialMinusOrdered ==
    (\A r \in Requests : Finished(r))
    => \A p \in DOMAIN phoneproduct :
          phoneproduct[p].stock = stock0[p] - OrderedQty(order, p)

\* C7 witness: two requests that overlapped have both ordered the same
\* product and both have finished with their orders persisted.
C7_Witness ==
    /\ \A r \in Requests : Done(r) /\ Persisted(r)
    /\ \E p \in DOMAIN phoneproduct :
          /\ \A r \in Requests : QtyOf(req[r].items, p) >= 1
          /\ req["r1"].before = req["r2"].before
          /\ phoneproduct[p].stock < 0

\* The cart of request r has two lines for products that exist, and the
\* product of the second line has less stock than the line asks for.
SecondLineShort(r) ==
    /\ db
    /\ Len(req[r].items) = 2
    /\ \A k \in 1 .. 2 : req[r].items[k].product_id \in DOMAIN req[r].before
    /\ req[r].before[req[r].items[2].product_id] < req[r].items[2].qty

\* C8: a request with two line items for existing products, the second of which
\* asks for more than the product's stock, fails; the stock of the first line's
\* product is what it was before the request and no order is persisted.
C8_SecondLineInsufficientStock ==
    \A r \in Requests :
        (Done(r) /\ SecondLineShort(r))
        => /\ req[r].response.status = 400
           /\ order = << >>
           /\ phoneproduct[req[r].items[1].product_id].stock
                = req[r].before[req[r].items[1].product_id]

\* C8 witness: the first line passed its stock check and the second did not.
C8_Witness ==
    \E r \in Requests :
        /\ Done(r) /\ SecondLineShort(r)
        /\ req[r].items[1].qty >= 1
        /\ req[r].before[req[r].items[1].product_id] >= req[r].items[1].qty
        /\ req[r].i = 2
        /\ req[r].exc.detail = "Not enough stock for"

\* Line k of the cart of request r has a malformed product id or the id of no
\* product.
BadLine(r, k) == req[r].items[k].product_id \notin DOMAIN phoneproduct

\* C9: a request with a line whose product id is malformed or unknown, at any
\* position of the cart, fails with InvalidProduct (400); no order is persisted
\* and no stock is altered.
C9_InvalidProductRejected ==
    \A r \in Requests :
        (Done(r) /\ db /\ \E k \in DOMAIN req[r].items : BadLine(r, k))
        => /\ req[r].response = InvalidProduct
           /\ order = << >>
           /\ NoneDecremented(r)
           /\ \A p \in DOMAIN req[r].before :
                 phoneproduct[p].stock = req[r].before[p]

\* C9 witness: the bad line is the second one and the first line was valid.
C9_Witness ==
    \E r \in Requests :
        /\ Done(r) /\ db /\ Len(req[r].items) = 2
        /\ BadLine(r, 2) /\ ~BadLine(r, 1)
        /\ req[r].i = 2
        /\ req[r].exc.kind \in {"InvalidId", "HTTPException"}

\* C10: when the first line of a cart references an existing product whose
\* stock is lower than the requested quantity (and no store call fails), the
\* request fails with a client error that names the product's model and that
\* is not the InvalidProduct error.
C10_InsufficientStockNamesModel ==
    \A r \in Requests :
        (/\ Done(r) /\ db /\ failures = 0
         /\ Len(req[r].items) >= 1
         /\ req[r].items[1].product_id \in DOMAIN req[r].before
         /\ req[r].before[req[r].items[1].product_id] < req[r].items[1].qty)
        => /\ req[r].response.status = 400
           /\ req[r].response.detail = "Not enough stock for"
           /\ req[r].response.arg = phoneproduct[req[r].items[1].product_id].model
           /\ req[r].response # InvalidProduct

-----------------------------------------------------------------------------
\* t is x rounded to 2 decimal places: a whole number of hundredths that is
\* at most half a hundredth away from x (both in mills).
IsRounded2(t, x) == t % 10 = 0 /\ t - x <= 5 /\ x - t <= 5

\* Sum of unit price x quantity over a sequence of line items.
RECURSIVE LinesTotal(_)
LinesTotal(lines) ==
    IF lines = << >> THEN 0
    ELSE Head(lines).price * Head(lines).qty + LinesTotal(Tail(lines))

\* Request r ran with the store configured and no failing store call; its cart
\* is a single line of quantity Q >= 1 for a product with stock S >= Q.
SingleLineInStock(r) ==
    /\ db /\ failures = 0
    /\ Len(req[r].items) = 1
    /\ req[r].items[1].qty >= 1
    /\ req[r].items[1].product_id \in DOMAIN req[r].before
    /\ req[r].before[req[r].items[1].product_id] >= req[r].items[1].qty

\* C11: a request run alone with a single line of quantity Q >= 1 for a product
\* with stock S >= Q succeeds; afterwards the stock of the product is S - Q,
\* the stock of every other product is unchanged, and exactly one order is
\* persisted, with total unitPrice x Q rounded to 2 decimals and status
\* "pending".
C11_SingleLineOrder ==
    \A r \in Requests :
        (Done(r) /\ SingleLineInStock(r))
        => LET it == req[r].items[1]
           IN  /\ req[r].response.status = 200
               /\ \A p \in DOMAIN req[r].before :
                     phoneproduct[p].stock =
                        req[r].before[p]
                          - (IF p = it.product_id THEN it.qty ELSE 0)
               /\ Len(order) = 1
               /\ IsRounded2(order[1].total,
                             phoneproduct[it.product_id].price * it.qty)
               /\ order[1].status = "pending"

\* C11 witness: such a request has ended, and its exact total is not a whole
\* number of hundredths.
C11_Witness ==
    \E r \in Requests :
        /\ Done(r) /\ SingleLineInStock(r)
        /\ (phoneproduct[req[r].items[1].product_id].price
              * req[r].items[1].qty) % 10 # 0
\* C12: the total of every persisted order is the sum of unit price x quantity
\* over its line items rounded to 2 decimal places, and the total returned to
\* the caller of a successful request is the total stored in its order.
C12_TotalIsRoundedSumOfLines ==
    /\ \A o \in DOMAIN order :
          IsRounded2(order[o].total, LinesTotal(order[o].items))
    /\ \A r \in Requests :
          (Done(r) /\ req[r].response.status = 200)
          => /\ req[r].response.order_id \in DOMAIN order
             /\ order[req[r].response.order_id].customer_name = r
             /\ req[r].response.total = order[req[r].response.order_id].total

\* C12 witness: a successful request whose order has two line items and an
\* exact total that is not a whole number of hundredths.
C12_Witness ==
    \E r \in Requests :
        /\ Done(r) /\ req[r].response.status = 200
        /\ Len(order[req[r].response.order_id].items) = 2
        /\ LinesTotal(order[req[r].response.order_id].items) % 10 # 0
\* C13: every persisted order has at least one line item, every line item has
\* a quantity >= 1, and no create_order request increases the stock of a
\* product (requests with an empty cart or a quantity <= 0 are rejected).
C13_OnlyPositiveNonEmptyCarts ==
    /\ \A o \in DOMAIN order :
          /\ Len(order[o].items) >= 1
          /\ \A k \in DOMAIN order[o].items : order[o].items[k].qty >= 1
    /\ \A p \in DOMAIN phoneproduct : phoneproduct[p].stock <= stock0[p]

\* C17: when a request run alone (no failing store call) lists the same
\* existing product in both lines of its cart with positive quantities, it
\* succeeds only if the two quantities together are at most the stock of the
\* product, and otherwise the stock is unchanged.
C17_DuplicateLinesCheckedTogether ==
    \A r \in Requests :
        (/\ Done(r) /\ db /\ failures = 0
         /\ Len(req[r].items) = 2
         /\ req[r].items[1].product_id = req[r].items[2].product_id
         /\ req[r].items[1].product_id \in DOMAIN req[r].before
         /\ \A k \in 1 .. 2 : req[r].items[k].qty >= 1)
        => LET p == req[r].items[1].product_id
               asked == req[r].items[1].qty + req[r].items[2].qty
           IN  IF asked <= req[r].before[p]
               THEN req[r].response.status = 200
               ELSE /\ req[r].response.status # 200
                    /\ phoneproduct[p].stock = req[r].before[p]
-----------------------------------------------------------------------------
\* C14: with the store configured, get_phone(id) answers 200 with the product
\* when a product has that id, 404 NotFound when the id is well-formed and no
\* product has it, and 400 InvalidIdentifier when the id is malformed.
C14_GetPhoneOutcomes ==
    [][(db /\ phone' # phone)
       => LET id == phone'.phone_id
          IN  IF id = MalformedId
              THEN phone'.status = 400
              ELSE IF id \in DOMAIN phoneproduct
              THEN /\ phone'.status = 200
                   /\ phone'.body[1].id = id
              ELSE phone'.status = 404]_vars

SeedDone(s) == seed[s].pc = "done"

\* C15: with the store configured, a seed call that counted an empty catalog
\* inserts the demo products, and a seed call that starts after another seed
\* call has ended inserts nothing, reports "Already seeded" and leaves the
\* catalog as it found it.
C15_SeedIsIdempotent ==
    \A s \in Seeds :
        (SeedDone(s) /\ db)
        => /\ seed[s].seen = << >>
              => /\ seed[s].response = "inserted"
                 /\ Len(seed[s].ids) = Len(demo)
                 /\ \A k \in DOMAIN demo : phoneproduct[seed[s].ids[k]] = demo[k]
           /\ seed[s].after # {}
              => /\ seed[s].response = "Already seeded"
                 /\ seed[s].ids = << >>
                 /\ phoneproduct = seed[s].seen

\* C15 witness: a seed call has inserted the demo catalog and a later one has
\* reported "Already seeded".
C15_Witness ==
    \E s \in Seeds : \E t \in seed[s].after :
        /\ SeedDone(s)
        /\ seed[t].response = "inserted"
        /\ seed[s].response = "Already seeded"

\* C18: once the concurrent seed calls that started from an empty catalog have
\* ended, the catalog holds exactly one copy of the demo catalog and at most
\* one call has inserted documents.
C18_ConcurrentSeedsInsertOnce ==
    (/\ db
     /\ \A s \in Seeds : seed[s].pc \in {"idle", "done"}
     /\ \E s \in Seeds : SeedDone(s) /\ seed[s].seen = << >>)
    => /\ Len(phoneproduct) = Len(demo)
       /\ Cardinality({s \in Seeds : seed[s].ids # << >>}) <= 1
\* The line items of order document o are copies of the brand, model, unit
\* price and image of the products of collection coll.
IsSnapshot(o, coll) ==
    \A k \in DOMAIN o.items :
        LET l == o.items[k]
        IN  /\ l.product_id \in DOMAIN coll
            /\ l.brand = coll[l.product_id].brand
            /\ l.model = coll[l.product_id].model
            /\ l.price = coll[l.product_id].price
            /\ l.image = coll[l.product_id].image

\* C16: no step changes or removes an order that is persisted (its line
\* items, unit prices, total and status stay what they were), and the line
\* items of every order hold the brand, model, unit price and image of the
\* products they were read from.
C16_OrdersAreImmutableSnapshots ==
    [][/\ \A o \in DOMAIN order :
             o \in DOMAIN order' /\ order'[o] = order[o]
       /\ \A o \in DOMAIN order' : IsSnapshot(order'[o], phoneproduct')]_vars

\* C16 witness: two orders are persisted and, since the first was created,
\* the stock of a product it lists has been decremented.
C16_Witness ==
    /\ Len(order) = 2
    /\ \A r \in Requests : Done(r)
    /\ \E k \in DOMAIN order[1].items :
          phoneproduct[order[1].items[k].product_id].stock
             < stock0[order[1].items[k].product_id]
====
